---------------------------- MODULE Spec2Model ----------------------------
(***************************************************************************)
(* Model of the Assistants helper functions (_Assistants_helper_module.py, *)
(* inlined again in OpenAI_Assistants.py) and of the conversations the     *)
(* scripts run with them against the remote assistants service.            *)
(*                                                                         *)
(* The client side is one conversation per user:                           *)
(*   create_thread_and_run -> wait_on_run -> get_response -> pretty_print  *)
(* and, for the last user, a follow-up submit_message on the same Thread.  *)
(* The service side holds the Threads, their message logs and the Runs;    *)
(* a Run moves through its status lifecycle on the service, and the client *)
(* learns where it is each time it retrieves the Run.                      *)
(*                                                                         *)
(* Spec      the script: the conversations run in the order of its         *)
(*           statements, one helper call at a time.                        *)
(* ConcSpec  the same conversations as separate tasks whose service calls  *)
(*           interleave freely.                                            *)
(* WaitSpec  one wait_on_run call, given any Run snapshot, against any     *)
(*           course of statuses on the service; LiveWaitSpec adds the      *)
(*           fairness of the polling loop and of the service.              *)
(***************************************************************************)
EXTENDS Naturals, Sequences, FiniteSets

(***************************************************************************)
(* Bounds of the model.                                                    *)
(***************************************************************************)
\* The instrumentation counts the polls of one wait_on_run call up to here.
MaxPolls == 3
\* The service's clock runs from 0 to here.
MaxClock == 1
\* An assistant message has from one to this many content parts.
MaxParts == 1

\* The users whose requests the script emulates: thread1/run1 .. thread3/run3.
NumUsers == 3

Tasks == 1..NumUsers
ThreadIds == 1..NumUsers

(***************************************************************************)
(* Values of the program.                                                  *)
(***************************************************************************)
Statuses ==
    {"queued", "in_progress", "requires_action", "cancelling",
     "cancelled", "failed", "completed", "expired"}

MATH_ASSISTANT_ID == "asst_math_tutor"

NoThread == 0
NoRun == [id |-> <<0, 0>>, thread_id |-> NoThread, assistant_id |-> "none",
          status |-> "none"]

\* The user input of the conversation that task t originates.
user_input(t) == <<"question", t>>

\* The follow-up message sent on a Thread that already holds an exchange.
thank_you == <<"Thank you!">>

\* A text content part of a message.
Part(v) == [type |-> "text", text |-> [value |-> v]]

\* What the assistant may answer: a message holds one or more content parts,
\* up to MaxParts of them.  The client reads the first part only.
ReplyContents ==
    {[i \in 1..n |-> Part(IF i = 1 THEN <<"answer">> ELSE <<"more">>)] : n \in 1..MaxParts}

\* What the Assistant may have added to the Thread while it worked on a Run:
\* a message with one of these contents, or nothing.  Which, is the service's
\* choice for every Run alike.
NoReply == << >>

Replies == ReplyContents \cup {NoReply}

\* The tools an assistant can be given.
code_interpreter == "code_interpreter"
retrieval == "retrieval"
function == "function:display_quiz"

\* No assistant has been created yet.  `created` counts the assistants created,
\* `file` is the file uploaded, `keeps` says whether the service keeps the
\* fields an update does not pass, `step` is where the tools script is.
NoAgent ==
    [created |-> 0, name |-> "", instructions |-> "", model |-> "",
     tools |-> << >>, file_ids |-> {}, file |-> "none", keeps |-> TRUE, step |-> 0]

VARIABLES
    \* ---- the remote service ----
    threads,     \* number of Threads created so far (their ids are 1..threads)
    msgs,        \* msgs[th]: the message log of Thread th, in creation order
    runs,        \* runs[th]: the Runs created against Thread th, in creation order
    now,         \* the service's clock (creation timestamps)
    \* ---- the client: one conversation per user ----
    pc,          \* where each conversation is in its script
    lthread,     \* the Thread a helper call in progress works on (its local/parameter)
    thread,      \* the caller's Thread variable (thread1, thread2, thread3)
    run,         \* the caller's Run variable (run1, run2, run3, run4)
    wrun,        \* the local `run` of the wait_on_run call in progress
    followups,   \* follow-up messages sent so far on the conversation's Thread
    listed,      \* the result of the latest get_response call
    prevListed,  \* the result of the get_response call before that
    out,         \* what the latest pretty_print call printed, one entry per print call
    \* ---- instrumentation of the calls (not program state) ----
    nfetch,      \* runs.retrieve calls made by the wait_on_run call in progress
    nsleep,      \* time.sleep calls made by the wait_on_run call in progress
    hist,        \* the statuses those retrieve calls returned, in order
    arg,         \* the Run that call was given
    calls,       \* the service calls of the composition helper call in progress
    probe,       \* whether the wait_on_run calls are instrumented
    \* ---- errors and the assistant ----
    err,         \* err[t]: the service call of conversation t that raised, if any
    agent        \* the assistant on the service, and where the tools script is

svars == <<threads, msgs, runs, now>>
cvars == <<pc, lthread, thread, run, wrun, followups>>
ovars == <<listed, prevListed, out>>
xvars == <<err, agent>>
gvars == <<nfetch, nsleep, hist, arg, calls, probe, err, agent>>
wvars == <<nfetch, nsleep, hist, arg, probe, err, agent>>
vars == <<threads, msgs, runs, now, pc, lthread, thread, run, wrun, followups,
          listed, prevListed, out, nfetch, nsleep, hist, arg, calls, probe, err, agent>>

(***************************************************************************)
(* Helpers on sequences.                                                   *)
(***************************************************************************)
Reverse(s) == [i \in 1..Len(s) |-> s[Len(s) + 1 - i]]

Range(s) == {s[i] : i \in 1..Len(s)}

IsPrefix(s, t) == Len(s) <= Len(t) /\ \A i \in 1..Len(s) : s[i] = t[i]

Min(a, b) == IF a <= b THEN a ELSE b


(***************************************************************************)
(* The remote service, as the client sees it through the client library.   *)
(***************************************************************************)
NoRunId == <<0, 0>>

\* The statuses in which the service is still to work on a Run.
Pending(s) == s = "queued" \/ s = "in_progress"

\* The statuses after which the service never changes a Run again.
Terminal(s) == s \in {"completed", "failed", "cancelled", "expired"}

\* The statuses a Run may move to next on the service's side.  A Run leaves
\* requires_action for more work only when tool outputs are submitted, which
\* no code of the repository does.
NextStatuses(s) ==
    CASE s = "queued" -> {"in_progress", "cancelling", "failed", "expired"}
      [] s = "in_progress" ->
            {"queued", "requires_action", "cancelling", "failed", "completed", "expired"}
      [] s = "requires_action" -> {"cancelling", "expired"}
      [] s = "cancelling" -> {"cancelled"}
      [] OTHER -> {}

\* The statuses a Run may have reached since it was seen with status s.
Onward(S) == S \cup UNION {NextStatuses(s) : s \in S}

Ahead(s) == Onward(Onward(Onward(Onward({s}))))

\* A message as the service stores it.
Message(th, n, role, content, at, rid) ==
    [id |-> <<th, n>>, thread_id |-> th, role |-> role, content |-> content,
     created_at |-> at, run_id |-> rid]

\* threads.messages.create(thread_id=th, role=role, content=text): the log of th
\* with the new message appended, stamped with the service's clock.
messages_create(th, role, text) ==
    [msgs EXCEPT ![th] =
        Append(@, Message(th, Len(@) + 1, role, << Part(text) >>, now, NoRunId))]

\* threads.runs.create(thread_id=th, assistant_id=a): the new Run, queued.
NewRun(th, a) ==
    [id |-> <<th, Len(runs[th]) + 1>>, thread_id |-> th, assistant_id |-> a,
     status |-> "queued", stuck |-> FALSE]

runs_create(th, a) == [runs EXCEPT ![th] = Append(@, NewRun(th, a))]

\* A snapshot that reports every Run as completed, whatever its status.
SnapshotCompleted(r) ==
    [id |-> r.id, thread_id |-> r.thread_id, assistant_id |-> r.assistant_id,
     status |-> "completed"]

\* What the client gets for a Run: the snapshot of its fields at that moment.
Snapshot(r) ==
    [id |-> r.id, thread_id |-> r.thread_id, assistant_id |-> r.assistant_id,
     status |-> r.status]

\* The Run a retrieve call names exists on the Thread it names.
KnownRun(th, rid) ==
    th \in ThreadIds /\ rid[1] = th /\ rid[2] \in 1..Len(runs[th])

\* The statuses the service may report for a Run when it is retrieved: the one
\* it had when last seen, or one it has moved to since.  A Run the service
\* never finishes stays pending.
Reportable(r) == {s \in Ahead(r.status) : r.stuck => Pending(s)}

\* The Assistant has added its message for Run k of Thread th.
Replied(th, k) ==
    \E i \in 1..Len(msgs[th]) : msgs[th][i].run_id = runs[th][k].id

\* The service's side of a retrieve that reports status s for Run k of Thread
\* th: the Run has that status now, and the Assistant, working on the Run, may
\* have added its message c to the Thread since the Run was last seen.  The
\* code has no part in whether it did, and nothing in it ties the message to
\* the status the Run ends with: both are the service's choice.
ServiceProgress(th, k, s, c) ==
    /\ runs' = [runs EXCEPT ![th][k].status = s]
    /\ msgs' = IF c # NoReply /\ ~Replied(th, k)
                  THEN [msgs EXCEPT ![th] =
                          Append(@, Message(th, Len(@) + 1, "assistant", c, now,
                                            runs[th][k].id))]
                  ELSE msgs

\* threads.messages.list(thread_id=th, order=order): every message of th, oldest
\* first for "asc", most recent first for "desc" (the service's default).
messages_list(th, order) ==
    IF order = "asc" THEN msgs[th] ELSE Reverse(msgs[th])

\* Time passes on the service: later messages get later creation timestamps.
Tick ==
    /\ now < MaxClock
    /\ now' = now + 1
    /\ UNCHANGED <<threads, msgs, runs, cvars, ovars, gvars>>

(***************************************************************************)
(* The helper functions.  A helper that makes several service calls is one *)
(* action per call, so that the calls of different tasks can interleave.   *)
(***************************************************************************)
\* A create_thread_and_run that takes the Thread created last, if there is one,
\* instead of creating its own.
create_thread_and_run_reuse(t) ==
    /\ pc[t] = "start"
    /\ threads' = IF threads = 0 THEN 1 ELSE threads
    /\ lthread' = [lthread EXCEPT ![t] = IF threads = 0 THEN 1 ELSE threads]
    /\ calls' = [calls EXCEPT ![t] = << [op |-> "createThread"] >>]
    /\ pc' = [pc EXCEPT ![t] = "cmsg"]
    /\ UNCHANGED <<msgs, runs, now, thread, run, wrun, followups, ovars, wvars>>

\* create_thread_and_run, first statement: thread = client.beta.threads.create()
create_thread_and_run(t) ==
    /\ pc[t] = "start"
    /\ threads < NumUsers
    /\ threads' = threads + 1
    /\ lthread' = [lthread EXCEPT ![t] = threads + 1]
    /\ calls' = [calls EXCEPT ![t] = << [op |-> "createThread"] >>]
    /\ pc' = [pc EXCEPT ![t] = "cmsg"]
    /\ UNCHANGED <<msgs, runs, now, thread, run, wrun, followups, ovars, wvars>>

\* A request that addresses the Thread created last on the service, not the
\* Thread th the helper was given.
message_request_latest(th, text) ==
    [op |-> "appendMessage", thread_id |-> threads, role |-> "user", text |-> text]

\* The request submit_message sends first: a `user` message with the given text
\* on the Thread th it was given.
message_request(th, text) ==
    [op |-> "appendMessage", thread_id |-> th, role |-> "user", text |-> text]

\* The request submit_message sends second: a Run on the Thread th it was given,
\* for the assistant a it was given.
run_request(th, a) ==
    [op |-> "createRun", thread_id |-> th, assistant_id |-> a]

\* submit_message, first statement, with `thread` bound to th; log is the call
\* log so far of the helper call this belongs to.
submit_message_create(t, th, text, log) ==
    /\ msgs' = messages_create(message_request(th, text).thread_id,
                               message_request(th, text).role,
                               message_request(th, text).text)
    /\ calls' = [calls EXCEPT ![t] = Append(log, message_request(th, text))]
    /\ lthread' = [lthread EXCEPT ![t] = th]
    /\ pc' = [pc EXCEPT ![t] = "crun"]
    /\ UNCHANGED <<threads, runs, now, thread, run, wrun, ovars, wvars>>

\* A submit_message that creates the Run first, before any message is appended.
submit_message_run_first(t) ==
    /\ pc[t] = "cmsg"
    /\ runs' = runs_create(run_request(lthread[t], MATH_ASSISTANT_ID).thread_id,
                           run_request(lthread[t], MATH_ASSISTANT_ID).assistant_id)
    /\ calls' = [calls EXCEPT ![t] =
                    Append(@, run_request(lthread[t], MATH_ASSISTANT_ID))]
    /\ pc' = [pc EXCEPT ![t] = "crun"]
    /\ UNCHANGED <<threads, msgs, now, lthread, thread, run, wrun, followups, ovars,
                   wvars>>

\* submit_message as create_thread_and_run calls it: on the Thread just created,
\* with the user input.
submit_message(t) ==
    /\ pc[t] = "cmsg"
    /\ submit_message_create(t, lthread[t], user_input(t), calls[t])
    /\ UNCHANGED followups

\* A follow-up sent while the Run before it is still to be waited on.
follow_up_early(t) ==
    /\ pc[t] = "wait"
    /\ followups[t] = 0
    /\ followups' = [followups EXCEPT ![t] = @ + 1]
    /\ submit_message_create(t, thread[t], thank_you, << >>)

\* The follow-up: submit_message(MATH_ASSISTANT_ID, thread3, "Thank you!") on a
\* Thread whose earlier Run was waited on and whose messages were listed.
follow_up(t) ==
    /\ pc[t] = "next"
    /\ followups[t] = 0
    /\ followups' = [followups EXCEPT ![t] = @ + 1]
    /\ submit_message_create(t, thread[t], thank_you, << >>)

\* submit_message, second statement and return: the Run is created and returned
\* (create_thread_and_run then returns the Thread with it).
submit_message_run(t) ==
    LET req == run_request(lthread[t], MATH_ASSISTANT_ID) IN
    /\ pc[t] = "crun"
    /\ runs' = runs_create(req.thread_id, req.assistant_id)
    /\ run' = [run EXCEPT ![t] = Snapshot(NewRun(req.thread_id, req.assistant_id))]
    /\ thread' = [thread EXCEPT ![t] = lthread[t]]
    /\ calls' = [calls EXCEPT ![t] = Append(@, req)]
    /\ pc' = [pc EXCEPT ![t] = "wait"]
    /\ UNCHANGED <<threads, msgs, now, lthread, wrun, followups, ovars, wvars>>

\* wait_on_run is called with the caller's Run and Thread: `run` is bound.
wait_on_run_call(t) ==
    /\ pc[t] = "wait"
    /\ wrun' = [wrun EXCEPT ![t] = run[t]]
    /\ arg' = [arg EXCEPT ![t] = IF probe THEN run[t] ELSE @]
    /\ calls' = [calls EXCEPT ![t] = IF probe THEN << >> ELSE @]
    /\ pc' = [pc EXCEPT ![t] = "check"]
    /\ UNCHANGED <<svars, lthread, thread, run, followups, ovars, nfetch, nsleep,
                   hist, probe, xvars>>

\* A loop condition that polls only while the Run is queued.
keep_polling_queued(s) == s = "queued"

\* A loop condition that polls until the Run has completed.
keep_polling_unless_completed(s) == s # "completed"

\* A loop condition that gives up after MaxPolls polls.
keep_polling_capped(s) ==
    (s = "queued" \/ s = "in_progress") /\ \A t \in Tasks : nfetch[t] < MaxPolls

\* A loop condition that also polls while the Run requires action.
keep_polling_through_action(s) ==
    s = "queued" \/ s = "in_progress" \/ s = "requires_action"

\* The loop condition of wait_on_run: poll again for this status?
keep_polling(s) == s = "queued" \/ s = "in_progress"

\* The request of the loop body: the Run is named by the id of the Thread
\* given and the id of the local `run`.
retrieve_request(th, r) == [op |-> "getRun", thread_id |-> th, run_id |-> r.id]

\* A loop body that writes what it fetched into the Run object it was given.
wait_on_run_retrieve_inplace(t) ==
    LET req == retrieve_request(thread[t], wrun[t])
        th == req.thread_id
        k == req.run_id[2] IN
    /\ pc[t] = "check"
    /\ keep_polling(wrun[t].status)
    /\ KnownRun(th, req.run_id)
    /\ \E s \in Reportable(runs[th][k]) : \E c \in Replies :
          /\ ServiceProgress(th, k, s, c)
          /\ wrun' = [wrun EXCEPT ![t] = Snapshot([runs[th][k] EXCEPT !.status = s])]
          /\ run' = [run EXCEPT ![t] = Snapshot([runs[th][k] EXCEPT !.status = s])]
          /\ hist' = [hist EXCEPT ![t] =
                        IF probe /\ Len(@) < MaxPolls THEN Append(@, s) ELSE @]
    /\ nfetch' = [nfetch EXCEPT ![t] = IF probe THEN Min(@ + 1, MaxPolls) ELSE @]
    /\ calls' = [calls EXCEPT ![t] =
                    IF probe /\ Len(@) < MaxPolls THEN Append(@, req) ELSE @]
    /\ pc' = [pc EXCEPT ![t] = "sleep"]
    /\ UNCHANGED <<threads, now, lthread, thread, followups, ovars, nsleep, arg,
                   probe, xvars>>

\* The loop body, first statement: run = client.beta.threads.runs.retrieve(
\* thread_id=thread.id, run_id=run.id), which returns the Run as the service
\* has it by now.
wait_on_run_retrieve(t) ==
    LET req == retrieve_request(thread[t], wrun[t])
        th == req.thread_id
        k == req.run_id[2] IN
    /\ pc[t] = "check"
    /\ keep_polling(wrun[t].status)
    /\ KnownRun(th, req.run_id)
    /\ \E s \in Reportable(runs[th][k]) : \E c \in Replies :
          /\ ServiceProgress(th, k, s, c)
          /\ wrun' = [wrun EXCEPT ![t] = Snapshot([runs[th][k] EXCEPT !.status = s])]
          /\ hist' = [hist EXCEPT ![t] =
                        IF probe /\ Len(@) < MaxPolls THEN Append(@, s) ELSE @]
    /\ nfetch' = [nfetch EXCEPT ![t] = IF probe THEN Min(@ + 1, MaxPolls) ELSE @]
    /\ calls' = [calls EXCEPT ![t] =
                    IF probe /\ Len(@) < MaxPolls THEN Append(@, req) ELSE @]
    /\ pc' = [pc EXCEPT ![t] = "sleep"]
    /\ UNCHANGED <<threads, now, lthread, thread, run, followups, ovars, nsleep, arg,
                   probe, xvars>>

\* The loop body, second statement: time.sleep(0.5)
wait_on_run_sleep(t) ==
    /\ pc[t] = "sleep"
    /\ nsleep' = [nsleep EXCEPT ![t] = IF probe THEN Min(@ + 1, MaxPolls) ELSE @]
    /\ pc' = [pc EXCEPT ![t] = "check"]
    /\ UNCHANGED <<svars, lthread, thread, run, wrun, followups, ovars, nfetch, hist,
                   arg, calls, probe, xvars>>

\* The loop ends and wait_on_run returns its `run`; the caller stores it
\* (run1 = wait_on_run(client, run1, thread1)).
wait_on_run_return(t) ==
    /\ pc[t] = "check"
    /\ ~keep_polling(wrun[t].status)
    /\ run' = [run EXCEPT ![t] = wrun[t]]
    /\ pc' = [pc EXCEPT ![t] = "list"]
    /\ UNCHANGED <<svars, lthread, thread, wrun, followups, ovars, gvars>>

wait_on_run(t) ==
    \/ wait_on_run_call(t)
    \/ wait_on_run_retrieve(t)
    \/ wait_on_run_sleep(t)
    \/ wait_on_run_return(t)

\* A get_response that asks for the two most recent messages only.
get_response_recent(th) ==
    SubSeq(msgs[th], IF Len(msgs[th]) > 2 THEN Len(msgs[th]) - 1 ELSE 1, Len(msgs[th]))

\* A get_response that lists in the service's default order.
get_response_default(th) == messages_list(th, "desc")

\* get_response(client, thread): the messages of the Thread, listed with
\* order="asc".
get_response(th) == messages_list(th, "asc")

\* What pretty_print prints for one message: its role and the text value of
\* its first content part.
print_line(m) == <<m.role, ": ", m.content[1].text.value>>

\* A pretty_print that prints the most recent message first.
pretty_print_newest_first(ms) ==
    << <<"# Messages">> >> \o [i \in 1..Len(ms) |-> print_line(ms[Len(ms) + 1 - i])]
        \o << << >> >>

\* The print calls of pretty_print(ms), in order: the header, one line for
\* each message as the loop meets it, and an empty line.
pretty_print(ms) ==
    << <<"# Messages">> >> \o [i \in 1..Len(ms) |-> print_line(ms[i])] \o << << >> >>

\* A script that lists and prints a Thread only if its Run completed.
show_response_if_completed(t) ==
    /\ pc[t] = "list"
    /\ run[t].status = "completed"
    /\ listed' = [listed EXCEPT ![t] = get_response(thread[t])]
    /\ prevListed' = [prevListed EXCEPT ![t] = listed[t]]
    /\ out' = [out EXCEPT ![t] = pretty_print(get_response(thread[t]))]
    /\ pc' = [pc EXCEPT ![t] = "next"]
    /\ nfetch' = [nfetch EXCEPT ![t] = 0]
    /\ nsleep' = [nsleep EXCEPT ![t] = 0]
    /\ hist' = [hist EXCEPT ![t] = << >>]
    /\ arg' = [arg EXCEPT ![t] = NoRun]
    /\ UNCHANGED <<svars, lthread, thread, run, wrun, followups, calls, probe, xvars>>

\* The statement pretty_print(get_response(client, thread1)): the Thread is
\* listed and the listing printed.  The instrumentation of the wait_on_run call
\* before it ends here.
show_response(t) ==
    /\ pc[t] = "list"
    /\ listed' = [listed EXCEPT ![t] = get_response(thread[t])]
    /\ prevListed' = [prevListed EXCEPT ![t] = listed[t]]
    /\ out' = [out EXCEPT ![t] = pretty_print(get_response(thread[t]))]
    /\ pc' = [pc EXCEPT ![t] = "next"]
    /\ nfetch' = [nfetch EXCEPT ![t] = 0]
    /\ nsleep' = [nsleep EXCEPT ![t] = 0]
    /\ hist' = [hist EXCEPT ![t] = << >>]
    /\ arg' = [arg EXCEPT ![t] = NoRun]
    /\ UNCHANGED <<svars, lthread, thread, run, wrun, followups, calls, probe, xvars>>

(***************************************************************************)
(* Failing service calls.  No helper and no script catches an exception:   *)
(* a service call that raises ends the helper call and the script with it. *)
(***************************************************************************)
\* The service call op of conversation t raises and the exception propagates.
raise(t, op) ==
    /\ err' = [err EXCEPT ![t] = op]
    /\ pc' = [pc EXCEPT ![t] = "raised"]
    /\ UNCHANGED <<svars, lthread, thread, run, wrun, followups, ovars, nfetch, nsleep,
                   hist, arg, calls, probe, agent>>

\* create_thread_and_run: client.beta.threads.create() raises.
create_thread_and_run_raise(t) == pc[t] = "start" /\ raise(t, "createThread")

\* submit_message: client.beta.threads.messages.create(...) raises.
submit_message_raise(t) == pc[t] = "cmsg" /\ raise(t, "appendMessage")

\* A submit_message that takes its message back when the Run cannot be created.
submit_message_run_raise_rollback(t) ==
    /\ pc[t] = "crun"
    /\ msgs' = [msgs EXCEPT ![lthread[t]] = SubSeq(@, 1, Len(@) - 1)]
    /\ err' = [err EXCEPT ![t] = "createRun"]
    /\ pc' = [pc EXCEPT ![t] = "raised"]
    /\ UNCHANGED <<threads, runs, now, lthread, thread, run, wrun, followups, ovars,
                   nfetch, nsleep, hist, arg, calls, probe, agent>>

\* submit_message: client.beta.threads.runs.create(...) raises.
submit_message_run_raise(t) == pc[t] = "crun" /\ raise(t, "createRun")

\* The follow-up submit_message: client.beta.threads.messages.create(...) raises.
\* The call has begun and has sent nothing that was answered.
follow_up_raise(t) ==
    /\ t = NumUsers
    /\ pc[t] = "next"
    /\ followups[t] = 0
    /\ calls' = [calls EXCEPT ![t] = << >>]
    /\ err' = [err EXCEPT ![t] = "appendMessage"]
    /\ pc' = [pc EXCEPT ![t] = "raised"]
    /\ UNCHANGED <<svars, lthread, thread, run, wrun, followups, ovars, nfetch, nsleep,
                   hist, arg, probe, agent>>

\* A waiter that notes the failure of a retrieve and tries again.
wait_on_run_raise_retry(t) ==
    /\ pc[t] = "check"
    /\ keep_polling(wrun[t].status)
    /\ err[t] = "none"
    /\ err' = [err EXCEPT ![t] = "getRun"]
    /\ UNCHANGED <<svars, cvars, ovars, nfetch, nsleep, hist, arg, calls, probe, agent>>

\* wait_on_run: client.beta.threads.runs.retrieve(...) raises.
wait_on_run_raise(t) ==
    /\ pc[t] = "check"
    /\ keep_polling(wrun[t].status)
    /\ raise(t, "getRun")

\* get_response: client.beta.threads.messages.list(...) raises.
get_response_raise(t) == pc[t] = "list" /\ raise(t, "listMessages")

\* Some service call of conversation t raises.
Raises(t) ==
    \/ create_thread_and_run_raise(t)
    \/ submit_message_raise(t)
    \/ submit_message_run_raise(t)
    \/ follow_up_raise(t)
    \/ wait_on_run_raise(t)
    \/ get_response_raise(t)

(***************************************************************************)
(* The conversations.                                                      *)
(***************************************************************************)
Init ==
    /\ threads = 0
    /\ msgs = [th \in ThreadIds |-> << >>]
    /\ runs = [th \in ThreadIds |-> << >>]
    /\ now = 0
    /\ pc = [t \in Tasks |-> "start"]
    /\ lthread = [t \in Tasks |-> NoThread]
    /\ thread = [t \in Tasks |-> NoThread]
    /\ run = [t \in Tasks |-> NoRun]
    /\ wrun = [t \in Tasks |-> NoRun]
    /\ followups = [t \in Tasks |-> 0]
    /\ listed = [t \in Tasks |-> << >>]
    /\ prevListed = [t \in Tasks |-> << >>]
    /\ out = [t \in Tasks |-> << >>]
    /\ nfetch = [t \in Tasks |-> 0]
    /\ nsleep = [t \in Tasks |-> 0]
    /\ hist = [t \in Tasks |-> << >>]
    /\ arg = [t \in Tasks |-> NoRun]
    /\ calls = [t \in Tasks |-> << >>]
    /\ probe = FALSE
    /\ err = [t \in Tasks |-> "none"]
    /\ agent = NoAgent

\* The conversation of user t: originate it, wait for the Run, show the Thread.
Pipeline(t) ==
    \/ create_thread_and_run(t)
    \/ submit_message(t)
    \/ submit_message_run(t)
    \/ wait_on_run(t)
    \/ show_response(t)

\* Inside create_thread_and_run or submit_message.
Composing(t) == pc[t] \in {"start", "cmsg", "crun"}

\* A script that takes the conversations one after the other, each to its end.
Turn_one_by_one ==
    IF \E t \in Tasks : pc[t] # "next"
       THEN CHOOSE t \in Tasks : pc[t] # "next" /\ \A u \in 1..(t - 1) : pc[u] = "next"
       ELSE NumUsers

\* The conversation the script's current statement belongs to: the three
\* create_thread_and_run calls come first, in order; then, in order, each
\* Run is waited on and its Thread printed; the follow-up comes last.  A
\* statement that raised is the script's last.
Turn ==
    IF \E t \in Tasks : pc[t] = "raised"
       THEN CHOOSE t \in Tasks : pc[t] = "raised"
       ELSE IF \E t \in Tasks : Composing(t)
               THEN CHOOSE t \in Tasks :
                        Composing(t) /\ \A u \in 1..(t - 1) : ~Composing(u)
               ELSE IF \E t \in Tasks : pc[t] # "next"
                       THEN CHOOSE t \in Tasks :
                                pc[t] # "next" /\ \A u \in 1..(t - 1) : pc[u] = "next"
                       ELSE NumUsers

\* The script thanks the assistant on the last Thread only (thread3).
ThankYou(t) == t = NumUsers /\ follow_up(t)

Script == Pipeline(Turn) \/ ThankYou(Turn)

\* The statement the script is at raises.
Failure == Raises(Turn)

Next == Script \/ Tick \/ Failure

Spec == Init /\ [][Next]_vars

\* The conversations as concurrent tasks: any task may take its next step.
ConcNext == \E t \in Tasks : Pipeline(t)

ConcSpec == Init /\ [][ConcNext]_vars

(***************************************************************************)
(* The script with the helpers inlined (OpenAI_Assistants.py): the helpers *)
(* take `client` and, in create_thread_and_run, MATH_ASSISTANT_ID from the *)
(* module's globals instead of their parameters.                           *)
(***************************************************************************)
\* create_thread_and_run(user_input), first statement:
\* thread = client.beta.threads.create()
inlined_create_thread_and_run(t) ==
    /\ pc[t] = "start"
    /\ threads < NumUsers
    /\ threads' = threads + 1
    /\ lthread' = [lthread EXCEPT ![t] = threads + 1]
    /\ calls' = [calls EXCEPT ![t] = << [op |-> "createThread"] >>]
    /\ pc' = [pc EXCEPT ![t] = "cmsg"]
    /\ UNCHANGED <<msgs, runs, now, thread, run, wrun, followups, ovars, wvars>>

\* submit_message: messages.create(thread_id=thread.id, role="user",
\* content=user_message)
inlined_message_request(th, text) ==
    [op |-> "appendMessage", thread_id |-> th, role |-> "user", text |-> text]

\* A Run requested for another assistant than the one given.
inlined_run_request_other(th, a) ==
    [op |-> "createRun", thread_id |-> th, assistant_id |-> "asst_other"]

\* submit_message: runs.create(thread_id=thread.id, assistant_id=assistant_id)
inlined_run_request(th, a) ==
    [op |-> "createRun", thread_id |-> th, assistant_id |-> a]

\* submit_message(assistant_id, thread, user_message), first statement.
inlined_submit_message_create(t, th, text, log) ==
    /\ msgs' = messages_create(inlined_message_request(th, text).thread_id,
                               inlined_message_request(th, text).role,
                               inlined_message_request(th, text).text)
    /\ calls' = [calls EXCEPT ![t] = Append(log, inlined_message_request(th, text))]
    /\ lthread' = [lthread EXCEPT ![t] = th]
    /\ pc' = [pc EXCEPT ![t] = "crun"]
    /\ UNCHANGED <<threads, runs, now, thread, run, wrun, ovars, wvars>>

\* submit_message(MATH_ASSISTANT_ID, thread, user_input) in create_thread_and_run.
inlined_submit_message(t) ==
    /\ pc[t] = "cmsg"
    /\ inlined_submit_message_create(t, lthread[t], user_input(t), calls[t])
    /\ UNCHANGED followups

\* run4 = submit_message(MATH_ASSISTANT_ID, thread3, "Thank you!")
inlined_follow_up(t) ==
    /\ pc[t] = "next"
    /\ followups[t] = 0
    /\ followups' = [followups EXCEPT ![t] = @ + 1]
    /\ inlined_submit_message_create(t, thread[t], thank_you, << >>)

\* submit_message, second statement and return.
inlined_submit_message_run(t) ==
    LET req == inlined_run_request(lthread[t], MATH_ASSISTANT_ID) IN
    /\ pc[t] = "crun"
    /\ runs' = runs_create(req.thread_id, req.assistant_id)
    /\ run' = [run EXCEPT ![t] = Snapshot(NewRun(req.thread_id, req.assistant_id))]
    /\ thread' = [thread EXCEPT ![t] = lthread[t]]
    /\ calls' = [calls EXCEPT ![t] = Append(@, req)]
    /\ pc' = [pc EXCEPT ![t] = "wait"]
    /\ UNCHANGED <<threads, msgs, now, lthread, wrun, followups, ovars, wvars>>

\* wait_on_run(run, thread) is called.
inlined_wait_on_run_call(t) ==
    /\ pc[t] = "wait"
    /\ wrun' = [wrun EXCEPT ![t] = run[t]]
    /\ arg' = [arg EXCEPT ![t] = IF probe THEN run[t] ELSE @]
    /\ calls' = [calls EXCEPT ![t] = IF probe THEN << >> ELSE @]
    /\ pc' = [pc EXCEPT ![t] = "check"]
    /\ UNCHANGED <<svars, lthread, thread, run, followups, ovars, nfetch, nsleep,
                   hist, probe, xvars>>

\* while run.status == "queued" or run.status == "in_progress":
inlined_keep_polling(s) == s = "queued" \/ s = "in_progress"

\* runs.retrieve(thread_id=thread.id, run_id=run.id)
inlined_retrieve_request(th, r) ==
    [op |-> "getRun", thread_id |-> th, run_id |-> r.id]

inlined_wait_on_run_retrieve(t) ==
    LET req == inlined_retrieve_request(thread[t], wrun[t])
        th == req.thread_id
        k == req.run_id[2] IN
    /\ pc[t] = "check"
    /\ inlined_keep_polling(wrun[t].status)
    /\ KnownRun(th, req.run_id)
    /\ \E s \in Reportable(runs[th][k]) : \E c \in Replies :
          /\ ServiceProgress(th, k, s, c)
          /\ wrun' = [wrun EXCEPT ![t] = Snapshot([runs[th][k] EXCEPT !.status = s])]
          /\ hist' = [hist EXCEPT ![t] =
                        IF probe /\ Len(@) < MaxPolls THEN Append(@, s) ELSE @]
    /\ nfetch' = [nfetch EXCEPT ![t] = IF probe THEN Min(@ + 1, MaxPolls) ELSE @]
    /\ calls' = [calls EXCEPT ![t] =
                    IF probe /\ Len(@) < MaxPolls THEN Append(@, req) ELSE @]
    /\ pc' = [pc EXCEPT ![t] = "sleep"]
    /\ UNCHANGED <<threads, now, lthread, thread, run, followups, ovars, nsleep, arg,
                   probe, xvars>>

\* time.sleep(0.5)
inlined_wait_on_run_sleep(t) ==
    /\ pc[t] = "sleep"
    /\ nsleep' = [nsleep EXCEPT ![t] = IF probe THEN Min(@ + 1, MaxPolls) ELSE @]
    /\ pc' = [pc EXCEPT ![t] = "check"]
    /\ UNCHANGED <<svars, lthread, thread, run, wrun, followups, ovars, nfetch, hist,
                   arg, calls, probe, xvars>>

\* return run
inlined_wait_on_run_return(t) ==
    /\ pc[t] = "check"
    /\ ~inlined_keep_polling(wrun[t].status)
    /\ run' = [run EXCEPT ![t] = wrun[t]]
    /\ pc' = [pc EXCEPT ![t] = "list"]
    /\ UNCHANGED <<svars, lthread, thread, wrun, followups, ovars, gvars>>

inlined_wait_on_run(t) ==
    \/ inlined_wait_on_run_call(t)
    \/ inlined_wait_on_run_retrieve(t)
    \/ inlined_wait_on_run_sleep(t)
    \/ inlined_wait_on_run_return(t)

\* get_response(thread)
inlined_get_response(th) == messages_list(th, "asc")

\* print(f"{m.role}: {m.content[0].text.value}")
inlined_print_line(m) == <<m.role, ": ", m.content[1].text.value>>

\* pretty_print(messages)
inlined_pretty_print(ms) ==
    << <<"# Messages">> >> \o [i \in 1..Len(ms) |-> inlined_print_line(ms[i])]
        \o << << >> >>

\* pretty_print(get_response(thread1))
inlined_show_response(t) ==
    /\ pc[t] = "list"
    /\ listed' = [listed EXCEPT ![t] = inlined_get_response(thread[t])]
    /\ prevListed' = [prevListed EXCEPT ![t] = listed[t]]
    /\ out' = [out EXCEPT ![t] = inlined_pretty_print(inlined_get_response(thread[t]))]
    /\ pc' = [pc EXCEPT ![t] = "next"]
    /\ nfetch' = [nfetch EXCEPT ![t] = 0]
    /\ nsleep' = [nsleep EXCEPT ![t] = 0]
    /\ hist' = [hist EXCEPT ![t] = << >>]
    /\ arg' = [arg EXCEPT ![t] = NoRun]
    /\ UNCHANGED <<svars, lthread, thread, run, wrun, followups, calls, probe, xvars>>

InlinedPipeline(t) ==
    \/ inlined_create_thread_and_run(t)
    \/ inlined_submit_message(t)
    \/ inlined_submit_message_run(t)
    \/ inlined_wait_on_run(t)
    \/ inlined_show_response(t)

InlinedThankYou(t) == t = NumUsers /\ inlined_follow_up(t)

\* The statements of OpenAI_Assistants.py are those of 01OpenAI_Assistants.py,
\* in the same order.
InlinedScript == InlinedPipeline(Turn) \/ InlinedThankYou(Turn)

\* Either script takes its next statement against the same service.
EquivNext == Script \/ InlinedScript

EquivSpec == Init /\ [][EquivNext]_vars

(***************************************************************************)
(* The assistant and its tools (02OpenAI_Assistants_Tools.py): it is       *)
(* created, given the code interpreter, asked a question, given retrieval  *)
(* and an uploaded file, asked again, and given the display_quiz function. *)
(***************************************************************************)
\* The value a field f has after an update that passes the fields `given`: the
\* value passed or, for a field not passed, the value it had if the service
\* keeps such fields and the value of a new assistant if the service replaces
\* the whole configuration.
Updated(a, given, f) ==
    IF f \in DOMAIN given THEN given[f] ELSE IF a.keeps THEN a[f] ELSE NoAgent[f]

\* client.beta.assistants.update(MATH_ASSISTANT_ID, **given)
assistants_update(a, given) ==
    [a EXCEPT !.name = Updated(a, given, "name"),
              !.instructions = Updated(a, given, "instructions"),
              !.model = Updated(a, given, "model"),
              !.tools = Updated(a, given, "tools"),
              !.file_ids = Updated(a, given, "file_ids")]

\* The tools script moves from step n to the next with the assistant as a.
tools_step(n, a) ==
    /\ agent.step = n
    /\ agent' = [a EXCEPT !.step = n + 1]
    /\ UNCHANGED <<svars, cvars, ovars, nfetch, nsleep, hist, arg, calls, probe, err>>

\* assistant = client.beta.assistants.create(name=..., instructions=..., model=...)
assistants_create ==
    /\ agent.created = 0
    /\ tools_step(0, [agent EXCEPT !.created = @ + 1,
                                   !.name = "Math Tutor",
                                   !.instructions =
                                       "You are a personal math tutor. Answer questions briefly, in a sentence or less.",
                                   !.model = "gpt-4-1106-preview"])

\* assistants.update(MATH_ASSISTANT_ID, tools=[{"type": "code_interpreter"}])
update_code_interpreter ==
    /\ agent.created = 1
    /\ tools_step(1, assistants_update(agent, [tools |-> << code_interpreter >>]))

\* file = client.files.create(...), once the first question has been waited on.
files_create ==
    /\ pc[1] = "list"
    /\ tools_step(2, [agent EXCEPT !.file = "file_1"])

\* assistants.update(MATH_ASSISTANT_ID, tools=[code_interpreter, retrieval],
\* file_ids=[file.id])
update_retrieval ==
    /\ agent.file # "none"
    /\ tools_step(3, assistants_update(agent,
                         [tools |-> << code_interpreter, retrieval >>,
                          file_ids |-> {agent.file}]))

\* An update that gives the function in place of retrieval.
update_function_only ==
    /\ pc[2] = "list"
    /\ tools_step(4, assistants_update(agent,
                         [tools |-> << code_interpreter, function >>]))

\* assistants.update(MATH_ASSISTANT_ID, tools=[code_interpreter, retrieval,
\* {"type": "function", "function": function_json}]), once the second question
\* has been waited on.
update_function ==
    /\ pc[2] = "list"
    /\ tools_step(4, assistants_update(agent,
                         [tools |-> << code_interpreter, retrieval, function >>]))

\* thread, run = create_thread_and_run(...); run = wait_on_run(client, run, thread)
Question(t) ==
    \/ create_thread_and_run(t)
    \/ submit_message(t)
    \/ submit_message_run(t)
    \/ wait_on_run(t)

\* The two questions of the tools script, each after the update before it.
Questions == (agent.step = 2 /\ Question(1)) \/ (agent.step = 4 /\ Question(2))

\* The service either keeps the fields an update does not pass or replaces the
\* whole configuration; the source does not say which.
ToolsInit ==
    /\ threads = 0
    /\ msgs = [th \in ThreadIds |-> << >>]
    /\ runs = [th \in ThreadIds |-> << >>]
    /\ now = 0
    /\ pc = [t \in Tasks |-> "start"]
    /\ lthread = [t \in Tasks |-> NoThread]
    /\ thread = [t \in Tasks |-> NoThread]
    /\ run = [t \in Tasks |-> NoRun]
    /\ wrun = [t \in Tasks |-> NoRun]
    /\ followups = [t \in Tasks |-> 0]
    /\ listed = [t \in Tasks |-> << >>]
    /\ prevListed = [t \in Tasks |-> << >>]
    /\ out = [t \in Tasks |-> << >>]
    /\ nfetch = [t \in Tasks |-> 0]
    /\ nsleep = [t \in Tasks |-> 0]
    /\ hist = [t \in Tasks |-> << >>]
    /\ arg = [t \in Tasks |-> NoRun]
    /\ calls = [t \in Tasks |-> << >>]
    /\ probe = FALSE
    /\ err = [t \in Tasks |-> "none"]
    /\ \E b \in BOOLEAN : agent = [NoAgent EXCEPT !.keeps = b]

ToolsNext ==
    \/ assistants_create
    \/ update_code_interpreter
    \/ Questions
    \/ files_create
    \/ update_retrieval
    \/ update_function

ToolsSpec == ToolsInit /\ [][ToolsNext]_vars

(***************************************************************************)
(* One wait_on_run call on its own: the Run it is given has any status,    *)
(* and the service either works the Run off or never finishes it.          *)
(***************************************************************************)
\* The Run of Thread 1 that the call is about.
WaitRun(s, b) ==
    [id |-> <<1, 1>>, thread_id |-> 1, assistant_id |-> MATH_ASSISTANT_ID,
     status |-> s, stuck |-> b]

WaitInit ==
    \E s \in Statuses : \E b \in BOOLEAN :
        /\ b => Pending(s)
        /\ threads = 1
        /\ msgs = [th \in ThreadIds |->
                     IF th = 1
                        THEN << Message(1, 1, "user", << Part(user_input(1)) >>, 0,
                                        NoRunId) >>
                        ELSE << >>]
        /\ runs = [th \in ThreadIds |-> IF th = 1 THEN << WaitRun(s, b) >> ELSE << >>]
        /\ now = 0
        /\ pc = [t \in Tasks |-> IF t = 1 THEN "wait" ELSE "off"]
        /\ lthread = [t \in Tasks |-> IF t = 1 THEN 1 ELSE NoThread]
        /\ thread = [t \in Tasks |-> IF t = 1 THEN 1 ELSE NoThread]
        /\ run = [t \in Tasks |->
                    IF t = 1
                       THEN [id |-> <<1, 1>>, thread_id |-> 1,
                             assistant_id |-> MATH_ASSISTANT_ID, status |-> s]
                       ELSE NoRun]
        /\ wrun = [t \in Tasks |-> NoRun]
        /\ followups = [t \in Tasks |-> 0]
        /\ listed = [t \in Tasks |-> << >>]
        /\ prevListed = [t \in Tasks |-> << >>]
        /\ out = [t \in Tasks |-> << >>]
        /\ nfetch = [t \in Tasks |-> 0]
        /\ nsleep = [t \in Tasks |-> 0]
        /\ hist = [t \in Tasks |-> << >>]
        /\ arg = [t \in Tasks |-> NoRun]
        /\ calls = [t \in Tasks |-> << >>]
        /\ probe = TRUE
        /\ err = [t \in Tasks |-> "none"]
        /\ agent = NoAgent

WaitNext == wait_on_run(1) \/ wait_on_run_raise(1)

WaitSpec == WaitInit /\ [][WaitNext]_vars

\* A retrieve after which the Run is no longer pending.
ServiceSettles == wait_on_run_retrieve(1) /\ ~Pending(wrun'[1].status)

\* The service answers every request.  The polling loop keeps running (nothing
\* but the loop condition stops it), and a Run that the service does not leave pending forever is at some point
\* reported with a status that is not pending.
LiveWaitSpec ==
    /\ WaitInit
    /\ [][wait_on_run(1)]_vars
    /\ WF_vars(wait_on_run(1))
    /\ SF_vars(ServiceSettles)

(***************************************************************************)
(* Properties.                                                             *)
(***************************************************************************)
\* The statuses of one wait_on_run call in order: that of the Run it was given,
\* then those its fetches returned.
StatusSeq(t) == << arg[t].status >> \o hist[t]

\* The call of task t is under way or has just returned, and every one of its
\* fetches so far is on record.
Recorded(t) == pc[t] \in {"check", "sleep", "list"} /\ nfetch[t] < MaxPolls

\* C1: wait_on_run returns only a Run whose status is neither queued nor
\* in_progress, and that status is not made up: with no fetch made the
\* returned Run is the Run given, otherwise its status is the status the
\* last fetch returned and the Run is the service's snapshot.
C1_ReturnsLastSnapshot ==
    pc[1] = "list" =>
        /\ run[1].status \notin {"queued", "in_progress"}
        /\ nfetch[1] = 0 => run[1] = arg[1]
        /\ nfetch[1] > 0 =>
              /\ run[1].id = arg[1].id
              /\ run[1].status = runs[1][1].status
              /\ Recorded(1) => run[1].status = hist[1][nfetch[1]]

C1_Witness ==
    /\ pc[1] = "list"
    /\ arg[1].status = "queued"
    /\ hist[1] = <<"in_progress", "completed">>
    /\ nfetch[1] = 2
    /\ run[1].status = "completed"

\* C2: in submit_message the message is appended before the Run is created:
\* a createRun call comes directly after the appendMessage call of the same
\* helper call, which carries role `user` and the given Thread and text; when
\* the Run is about to be created the message is already the last one on the
\* Thread and the Run is not there yet; the Run returned references the given
\* assistant and the same Thread.
C2_AppendBeforeRun ==
    \A t \in Tasks :
        /\ \A i \in 1..Len(calls[t]) :
              calls[t][i].op = "createRun" =>
                  /\ i > 1
                  /\ calls[t][i - 1].op = "appendMessage"
                  /\ calls[t][i - 1].role = "user"
                  /\ calls[t][i - 1].thread_id = lthread[t]
                  /\ calls[t][i].thread_id = lthread[t]
                  /\ calls[t][i].assistant_id = MATH_ASSISTANT_ID
        /\ pc[t] = "crun" =>
              /\ Len(msgs[lthread[t]]) > 0
              /\ msgs[lthread[t]][Len(msgs[lthread[t]])].role = "user"
              /\ msgs[lthread[t]][Len(msgs[lthread[t]])].content =
                    << Part(IF followups[t] = 0 THEN user_input(t) ELSE thank_you) >>
              /\ Len(runs[lthread[t]]) = followups[t]
        /\ pc[t] = "wait" =>
              /\ Len(runs[lthread[t]]) = followups[t] + 1
              /\ run[t] = Snapshot(runs[lthread[t]][followups[t] + 1])
              /\ run[t].assistant_id = MATH_ASSISTANT_ID
              /\ run[t].thread_id = lthread[t]
              /\ calls[t][Len(calls[t])].op = "createRun"

C2_Witness ==
    /\ pc[NumUsers] = "wait"
    /\ followups[NumUsers] = 1
    /\ calls[NumUsers] = << message_request(thread[NumUsers], thank_you),
                            run_request(thread[NumUsers], MATH_ASSISTANT_ID) >>
    /\ Len(msgs[thread[NumUsers]]) >= 3

\* C3 (as stated): whenever wait_on_run returns, the status of the returned Run
\* is one of completed, failed, cancelled, expired, requires_action.
C3_Original ==
    pc[1] = "list" =>
        run[1].status \in {"completed", "failed", "cancelled", "expired",
                           "requires_action"}

\* C3: whenever wait_on_run returns, the status of the returned Run is any
\* status of the service other than queued and in_progress: completed, failed,
\* cancelled, expired, requires_action or cancelling.
C3_ReturnedStatuses ==
    pc[1] = "list" =>
        run[1].status \in {"completed", "failed", "cancelled", "expired",
                           "requires_action", "cancelling"}

C3_Witness ==
    /\ pc[1] = "list"
    /\ nfetch[1] = 1
    /\ arg[1].status = "in_progress"
    /\ run[1].status = "cancelling"

\* C4: with statuses s0 (the Run given), s1, s2, ... (the fetches), wait_on_run
\* makes exactly k fetches, k the least index with s_k not pending: every
\* fetch made follows a pending status, and the call returns only with a
\* status that is not pending, the one of the last fetch; with k = 0 it makes
\* no fetch and returns the Run given.
C4_ExactlyKFetches ==
    Recorded(1) =>
        /\ Len(hist[1]) = nfetch[1]
        /\ \A i \in 1..nfetch[1] : Pending(StatusSeq(1)[i])
        /\ pc[1] = "list" =>
              /\ ~Pending(StatusSeq(1)[nfetch[1] + 1])
              /\ run[1].status = StatusSeq(1)[nfetch[1] + 1]
              /\ nfetch[1] = 0 => run[1] = arg[1]

C4_Witness ==
    /\ pc[1] = "list"
    /\ Pending(arg[1].status)
    /\ hist[1] = <<"failed">>
    /\ nfetch[1] = 1
    /\ run[1].status = "failed"

\* C5: wait_on_run has no timeout and no cap on its polls: if the service at
\* some point reports a status that is not pending, the call returns; if the
\* service reports pending statuses forever, the call never returns and goes
\* on fetching.
C5_NoTimeout ==
    /\ [](~runs[1][1].stuck => <>(pc[1] = "list"))
    /\ [](runs[1][1].stuck => pc[1] # "list")
    /\ [](runs[1][1].stuck => <>(pc[1] = "sleep"))

C5_Witness ==
    /\ runs[1][1].stuck
    /\ pc[1] = "sleep"
    /\ nfetch[1] = MaxPolls
    /\ nsleep[1] = MaxPolls

\* The Threads the conversations own are pairwise distinct.
DistinctThreads ==
    \A t \in Tasks : \A u \in Tasks :
        (t # u /\ lthread[t] # NoThread /\ lthread[u] # NoThread) =>
            lthread[t] # lthread[u]

\* C6: create_thread_and_run creates a new empty Thread, then appends the user
\* message, then creates the Run, and returns the Thread with a Run that
\* targets it; the Threads of different calls are distinct, every message
\* belongs to the one Thread that holds it, and the message of one call is
\* never on the Thread of another.
C6_FreshThreadPerCall ==
    /\ DistinctThreads
    /\ \A t \in Tasks :
          /\ pc[t] = "cmsg" =>
                /\ lthread[t] \in 1..threads
                /\ msgs[lthread[t]] = << >>
                /\ runs[lthread[t]] = << >>
                /\ calls[t] = << [op |-> "createThread"] >>
          /\ (pc[t] = "wait" /\ followups[t] = 0) =>
                /\ calls[t] = << [op |-> "createThread"],
                                 message_request(thread[t], user_input(t)),
                                 run_request(thread[t], MATH_ASSISTANT_ID) >>
                /\ thread[t] = lthread[t]
                /\ run[t].thread_id = thread[t]
                /\ run[t] = Snapshot(runs[thread[t]][1])
    /\ \A th \in ThreadIds : \A i \in 1..Len(msgs[th]) :
          /\ msgs[th][i].thread_id = th
          /\ \A t \in Tasks :
                msgs[th][i].content = << Part(user_input(t)) >> => lthread[t] = th
          /\ \A th2 \in ThreadIds : \A j \in 1..Len(msgs[th2]) :
                msgs[th2][j].id = msgs[th][i].id => th2 = th

C6_Witness ==
    /\ \A t \in Tasks : pc[t] = "wait" /\ thread[t] = t
    /\ \A th \in ThreadIds : Len(msgs[th]) = 1 /\ Len(runs[th]) = 1

\* The creation timestamps of a listing never decrease (asc) or never
\* increase (desc).
InOrder(ms, order) ==
    \A i \in 1..Len(ms) : \A j \in i..Len(ms) :
        IF order = "asc" THEN ms[i].created_at <= ms[j].created_at
                         ELSE ms[i].created_at >= ms[j].created_at

\* C7 (as stated): get_response lists in the order its caller specifies, so
\* for the caller that asks for ascending and for the one that asks for
\* descending the listing returned is in that order.
C7_Original ==
    \A t \in Tasks : \A order \in {"asc", "desc"} :
        pc[t] = "next" => InOrder(listed[t], order)

\* C7: get_response takes the Thread only and always lists ascending: the
\* creation timestamps of its listing never decrease; the listing holds
\* all messages of that Thread and no message of another Thread, the same set
\* of messages as the service's default (descending) listing of the Thread,
\* which is the one in the opposite order.
C7_AlwaysAscending ==
    \A t \in Tasks :
        pc[t] = "next" =>
            /\ InOrder(listed[t], "asc")
            /\ InOrder(messages_list(thread[t], "desc"), "desc")
            /\ Range(listed[t]) = Range(msgs[thread[t]])
            /\ Range(listed[t]) = Range(messages_list(thread[t], "desc"))
            /\ Len(listed[t]) = Len(msgs[thread[t]])
            /\ \A i \in 1..Len(listed[t]) : listed[t][i].thread_id = thread[t]

C7_Witness ==
    \E t \in Tasks :
        /\ pc[t] = "next"
        /\ Len(listed[t]) >= 2
        /\ listed[t][1].created_at < listed[t][Len(listed[t])].created_at
        /\ ~InOrder(listed[t], "desc")

\* The conversation of task t has sent its follow-up, waited on the Run and
\* listed the Thread again.
FollowedUp(t) == pc[t] = "next" /\ followups[t] = 1

\* C8 (as stated): after the follow-up and the wait on its Run, get_response
\* returns the messages of the earlier listing in the same order, then the new
\* user message, then the new assistant reply.
C8_Original ==
    \A t \in Tasks :
        FollowedUp(t) =>
            /\ IsPrefix(prevListed[t], listed[t])
            /\ Len(listed[t]) = Len(prevListed[t]) + 2
            /\ listed[t][Len(prevListed[t]) + 1].role = "user"
            /\ listed[t][Len(prevListed[t]) + 2].role = "assistant"

\* C8: Thread logs only grow at the end: no step removes, edits or reorders
\* a message; after the follow-up and the wait on its Run, get_response
\* returns the messages of the earlier listing in the same order, then the new
\* user message, and after it whatever the Assistant has added for the
\* follow-up Run by then: its reply, or nothing.  The script lists the Thread
\* whatever the Run ended with, so the reply need not be there.
C8_AppendOnly ==
    /\ [][\A th \in ThreadIds : IsPrefix(msgs[th], msgs'[th])]_vars
    /\ [](\A t \in Tasks :
            FollowedUp(t) =>
                /\ IsPrefix(prevListed[t], listed[t])
                /\ Len(listed[t]) > Len(prevListed[t])
                /\ listed[t][Len(prevListed[t]) + 1].role = "user"
                /\ listed[t][Len(prevListed[t]) + 1].content = << Part(thank_you) >>
                /\ \A i \in (Len(prevListed[t]) + 2)..Len(listed[t]) :
                      /\ listed[t][i].role = "assistant"
                      /\ listed[t][i].run_id = run[t].id)

\* The follow-up Run was waited on and thread3 listed again: the two messages
\* of the first listing, "Thank you!" and the reply to it.
C8_Witness ==
    /\ FollowedUp(NumUsers)
    /\ Len(prevListed[NumUsers]) = 2
    /\ Len(listed[NumUsers]) = 4
    /\ listed[NumUsers][3].role = "user"
    /\ listed[NumUsers][4].role = "assistant"

\* What a listing shows of its messages, apart from the identifiers the
\* service hands out.
Shape(ms) == [i \in 1..Len(ms) |-> [role |-> ms[i].role, content |-> ms[i].content]]

\* The listings the conversation of task t ends with when the conversations run
\* one after the other and its Run ends with status s: the user's message and,
\* when the Assistant added one, its reply.
SequentialShapes(t, s) ==
    {<< [role |-> "user", content |-> << Part(user_input(t)) >>],
        [role |-> "assistant", content |-> c] >> : c \in ReplyContents}
    \cup {<< [role |-> "user", content |-> << Part(user_input(t)) >>] >>}

\* C9: with the conversations run as concurrent tasks, under every
\* interleaving of their service calls each task ends with the message list
\* and the Run result of the sequential execution, and no task's message or
\* Run is on the Thread of another task.
C9_Isolation ==
    /\ DistinctThreads
    /\ \A t \in Tasks :
          pc[t] = "next" =>
              /\ Shape(listed[t]) \in SequentialShapes(t, run[t].status)
              /\ \A i \in 1..Len(listed[t]) : listed[t][i].thread_id = thread[t]
              /\ ~Pending(run[t].status)
              /\ run[t] = Snapshot(runs[thread[t]][1])
              /\ run[t].thread_id = thread[t]
    /\ \A th \in ThreadIds :
          /\ Len(runs[th]) <= 1
          /\ \A k \in 1..Len(runs[th]) :
                /\ runs[th][k].thread_id = th
                /\ \E t \in Tasks : lthread[t] = th /\ pc[t] \notin {"start", "cmsg", "crun"}
          /\ \A i \in 1..Len(msgs[th]) :
                /\ msgs[th][i].thread_id = th
                /\ msgs[th][i].role = "user" =>
                      \E t \in Tasks :
                          /\ lthread[t] = th
                          /\ msgs[th][i].content = << Part(user_input(t)) >>
                /\ msgs[th][i].role = "assistant" => msgs[th][i].run_id = <<th, 1>>

\* Two tasks whose calls interleaved (the Threads were created in the other
\* order than the tasks are numbered) have both finished.
C9_Witness ==
    /\ pc[1] = "next" /\ pc[2] = "next"
    /\ thread[1] = 2 /\ thread[2] = 1
    /\ run[1].status = "completed" /\ run[2].status = "failed"
    /\ pc[NumUsers] = "sleep"

\* C10: pretty_print does not re-sort: after the `# Messages` header it prints
\* exactly one `role: text` line per message, the i-th line built from the
\* i-th message of its input, which is the listing get_response returned,
\* and an empty line at the end.
C10_PrintsInInputOrder ==
    \A t \in Tasks :
        pc[t] = "next" =>
            /\ Len(out[t]) = Len(listed[t]) + 2
            /\ out[t][1] = <<"# Messages">>
            /\ \A i \in 1..Len(listed[t]) :
                  out[t][i + 1] =
                      <<listed[t][i].role, ": ", listed[t][i].content[1].text.value>>
            /\ out[t][Len(out[t])] = << >>

C10_Witness ==
    \E t \in Tasks :
        /\ pc[t] = "next"
        /\ Len(listed[t]) = 4
        /\ out[t][2] = <<"user", ": ", user_input(t)>>
        /\ out[t][3] = <<"assistant", ": ", <<"answer">> >>
        /\ out[t][4] = <<"user", ": ", thank_you>>

\* C11 (as stated): wait_on_run suspends only between two fetches, so a call
\* that made at least one fetch has made one suspension fewer than fetches
\* when it returns.
C11_Original ==
    (pc[1] = "list" /\ Recorded(1) /\ nfetch[1] >= 1) => nsleep[1] = nfetch[1] - 1

\* C12: a fetch that returns requires_action is the last fetch of the call, and
\* the call returns that snapshot as it is; the requests of the call are getRun
\* requests only (no tool output is submitted), and a Run that requires action
\* stays in that status.
C12_RequiresActionReturned ==
    /\ [](Recorded(1) =>
            /\ \A i \in 1..Len(hist[1]) :
                  hist[1][i] = "requires_action" =>
                      /\ i = Len(hist[1])
                      /\ pc[1] # "raised"
                      /\ wrun[1] = Snapshot(runs[1][1])
                      /\ wrun[1].status = "requires_action"
                      /\ pc[1] = "list" => run[1] = wrun[1]
            /\ \A i \in 1..Len(calls[1]) : calls[1][i].op = "getRun")
    /\ [][runs[1][1].status = "requires_action" =>
              runs'[1][1].status = "requires_action"]_vars

C12_Witness ==
    /\ pc[1] = "list"
    /\ hist[1] = <<"in_progress", "requires_action">>
    /\ nfetch[1] = 2
    /\ run[1].status = "requires_action"
    /\ runs[1][1].status = "requires_action"

\* The Runs of Thread th whose status is in S.
RunsIn(th, S) == {k \in 1..Len(runs[th]) : runs[th][k].status \in S}

\* C13 (as stated): for every Thread at most one Run is outstanding, that is
\* created and not yet completed, failed, cancelled or expired.
C13_Original ==
    \A th \in ThreadIds :
        Cardinality(RunsIn(th, Statuses \ {"completed", "failed", "cancelled",
                                             "expired"})) <= 1

\* C13: for every Thread at most one Run is pending (queued or in_progress): a
\* further Run is created on a Thread only after wait_on_run has returned for
\* the Run before it, which is then no longer pending; it may still be in
\* requires_action or cancelling.
C13_OnePendingRun ==
    /\ [](\A th \in ThreadIds :
            Cardinality(RunsIn(th, {"queued", "in_progress"})) <= 1)
    /\ [][\A th \in ThreadIds :
             Len(runs'[th]) > Len(runs[th]) =>
                 \A k \in 1..Len(runs[th]) :
                     /\ ~Pending(runs[th][k].status)
                     /\ \E t \in Tasks :
                           /\ lthread[t] = th
                           /\ pc[t] = "crun"
                           /\ run[t] = Snapshot(runs[th][k])]_vars

C13_Witness ==
    /\ pc[NumUsers] = "sleep"
    /\ followups[NumUsers] = 1
    /\ Len(runs[thread[NumUsers]]) = 2
    /\ runs[thread[NumUsers]][1].status = "completed"
    /\ runs[thread[NumUsers]][2].status = "in_progress"

\* C14: a retrieve that raises ends the wait_on_run call with that error: no
\* step of the call follows (no further fetch, no suspension), no Run is
\* returned (the caller still holds the Run it passed), and the status last
\* seen is still a pending one (the error is not made a status).
C14_NoRetry ==
    /\ [](err[1] = "getRun" =>
            /\ pc[1] = "raised"
            /\ run[1] = arg[1]
            /\ Pending(wrun[1].status)
            /\ Recorded(1) => (nsleep[1] = nfetch[1] /\ Len(hist[1]) = nfetch[1]))
    /\ [](pc[1] = "raised" => err[1] = "getRun")
    /\ [][pc[1] # "raised"]_vars

C14_Witness ==
    /\ pc[1] = "raised"
    /\ err[1] = "getRun"
    /\ arg[1].status = "queued"
    /\ hist[1] = <<"in_progress">>
    /\ nfetch[1] = 1

\* C15: the script does not branch on the outcome of a Run: with whatever
\* status wait_on_run returned, the next statement lists the Thread with
\* get_response and prints the listing, and after it the wait on the next
\* conversation's Run is the statement the script is at.
C15_NoBranchOnOutcome ==
    /\ [](\A t \in Tasks :
            /\ pc[t] = "list" => (Turn = t /\ ENABLED show_response(t))
            /\ (pc[t] = "next" /\ t < NumUsers /\ followups[t] = 0) =>
                  (pc[t + 1] = "wait" => (Turn = t + 1 /\ ENABLED wait_on_run(t + 1))))
    /\ [][\A t \in Tasks :
             (pc[t] = "list" /\ pc'[t] \notin {"list", "raised"}) =>
                 /\ pc'[t] = "next"
                 /\ listed'[t] = get_response(thread[t])
                 /\ out'[t] = pretty_print(listed'[t])
                 /\ run' = run]_vars

C15_Witness ==
    /\ pc[1] = "next" /\ run[1].status = "requires_action" /\ Len(out[1]) = 3
    /\ pc[2] = "next" /\ run[2].status = "failed" /\ Len(out[2]) = 3
    /\ pc[NumUsers] = "check"

\* C16 (as stated): a request error while waiting on one Run does not prevent
\* the outcomes of the other conversations from being obtained: as long as
\* another conversation has not been waited on and listed, the script goes on.
C16_Original ==
    \A t \in Tasks : \A u \in Tasks \ {t} :
        (err[t] = "getRun" /\ pc[u] # "next") => ENABLED Script

\* C17: wait_on_run issues getRun requests only, each for the Thread id and the
\* Run id it was given; while the call runs the Run object it was given keeps
\* its fields; no step of the call creates a Thread or a Run, changes a field
\* of a Run other than the status the service keeps, or touches a message
\* (a message the Assistant adds is the service's doing).
C17_OnlyGetRun ==
    /\ [](pc[1] \in {"check", "sleep", "raised"} => run[1] = arg[1])
    /\ [](\A i \in 1..Len(calls[1]) :
            calls[1][i] = [op |-> "getRun", thread_id |-> thread[1],
                           run_id |-> arg[1].id])
    /\ [][/\ threads' = threads
          /\ \A th \in ThreadIds :
                /\ Len(runs'[th]) = Len(runs[th])
                /\ \A k \in 1..Len(runs[th]) :
                      [runs'[th][k] EXCEPT !.status = "any"] =
                          [runs[th][k] EXCEPT !.status = "any"]
                /\ IsPrefix(msgs[th], msgs'[th])
                /\ \A i \in (Len(msgs[th]) + 1)..Len(msgs'[th]) :
                      /\ msgs'[th][i].role = "assistant"
                      /\ msgs'[th][i].run_id = arg[1].id]_vars

C17_Witness ==
    /\ pc[1] = "sleep"
    /\ arg[1].status = "queued"
    /\ run[1].status = "queued"
    /\ wrun[1].status = "completed"
    /\ calls[1] = << retrieve_request(1, arg[1]), retrieve_request(1, arg[1]) >>
    /\ Len(msgs[1]) = 2

\* C18: the three create_thread_and_run calls are complete before any Run is
\* polled, all Runs are for the same assistant, the Runs are waited on in
\* the order run1, run2, run3 (none is polled before the wait on the one
\* before it has returned), and a Thread is listed only when the wait on its
\* own Run has returned.
C18_SequentialScript ==
    /\ [](\A t \in Tasks : \A u \in Tasks :
            (pc[t] \in {"check", "sleep"} /\ u # t) => ~Composing(u))
    /\ [](\A t \in 1..(NumUsers - 1) :
            pc[t + 1] \in {"check", "sleep", "list", "next"} =>
                pc[t] \in {"list", "next"})
    /\ [](\A th \in ThreadIds : \A k \in 1..Len(runs[th]) :
            runs[th][k].assistant_id = MATH_ASSISTANT_ID)
    /\ [][\A t \in Tasks :
             listed'[t] # listed[t] => (pc[t] = "list" /\ ~Pending(run[t].status))]_vars

C18_Witness ==
    /\ pc[1] = "next"
    /\ pc[2] = "sleep"
    /\ pc[NumUsers] = "wait"
    /\ threads = NumUsers

\* A step of the tools script that updates the assistant.
IsUpdate == agent.step \in {1, 3, 4} /\ agent'.step = agent.step + 1

\* C19 (as stated): every update replaces the whole configuration (a field the
\* update does not pass, like the name, is the new assistant's again), and
\* every tool and every document of before the update is still there after it.
C19_Original ==
    [][IsUpdate =>
          /\ agent'.name = NoAgent.name
          /\ Range(agent.tools) \subseteq Range(agent'.tools)
          /\ agent.file_ids \subseteq agent'.file_ids]_vars

\* C19: the assistant is created once and never deleted; every update passes
\* the whole list of tools, which only grows: none, code interpreter, plus
\* retrieval, plus the function.  The last update passes no documents: the
\* document attached by the second update, and the name, instructions and
\* model, stay exactly if the service keeps the fields an update does not
\* pass; a service that replaces the whole configuration drops them.
C19_ToolsOnlyGrow ==
    /\ [](agent.created = (IF agent.step = 0 THEN 0 ELSE 1))
    /\ [][agent'.created >= agent.created]_vars
    /\ [][Range(agent.tools) \subseteq Range(agent'.tools)]_vars
    /\ [][IsUpdate =>
             IF agent.keeps
                THEN /\ agent.file_ids \subseteq agent'.file_ids
                     /\ agent'.name = agent.name
                     /\ agent'.instructions = agent.instructions
                     /\ agent'.model = agent.model
                ELSE /\ agent'.name = NoAgent.name
                     /\ agent.step = 4 => agent'.file_ids = {}]_vars
    /\ [](/\ agent.step = 1 => agent.tools = << >>
          /\ agent.step \in {2, 3} => agent.tools = << code_interpreter >>
          /\ agent.step = 4 =>
                /\ agent.tools = << code_interpreter, retrieval >>
                /\ agent.file_ids = {"file_1"}
          /\ agent.step = 5 =>
                /\ agent.tools = << code_interpreter, retrieval, function >>
                /\ agent.file_ids = (IF agent.keeps THEN {"file_1"} ELSE {}))

C19_Witness ==
    /\ agent.step = 5
    /\ agent.keeps
    /\ agent.tools = << code_interpreter, retrieval, function >>
    /\ agent.file_ids = {"file_1"}
    /\ agent.name = "Math Tutor"
    /\ run[2].status = "completed"

\* C20: the script with the helpers inlined and the script that imports them
\* are equivalent: from every state, against the same answers of the service,
\* a statement of the one is a statement of the other, with the same service
\* call, the same arguments and the same output; and so is each helper:
\* create_thread_and_run, submit_message, wait_on_run, get_response with
\* pretty_print.
C20_SameSteps ==
    /\ [][Script <=> InlinedScript]_vars
    /\ [][\A t \in Tasks :
             /\ create_thread_and_run(t) <=> inlined_create_thread_and_run(t)
             /\ submit_message(t) <=> inlined_submit_message(t)
             /\ follow_up(t) <=> inlined_follow_up(t)
             /\ submit_message_run(t) <=> inlined_submit_message_run(t)
             /\ wait_on_run(t) <=> inlined_wait_on_run(t)
             /\ show_response(t) <=> inlined_show_response(t)]_vars
    /\ [](\A t \in Tasks :
            /\ thread[t] # NoThread =>
                  get_response(thread[t]) = inlined_get_response(thread[t])
            /\ pretty_print(listed[t]) = inlined_pretty_print(listed[t])
            /\ keep_polling(run[t].status) <=> inlined_keep_polling(run[t].status))

C20_Witness ==
    /\ pc[NumUsers] = "next"
    /\ followups[NumUsers] = 1
    /\ run[NumUsers].status = "completed"
    /\ Len(out[NumUsers]) = 6
    /\ \A t \in Tasks : pc[t] = "next"

\* The follow-up submit_message of conversation t has returned its Run.
FollowUpReturned(t) ==
    followups[t] = 1 /\ pc[t] # "crun" /\ err[t] # "createRun"

\* The number of Runs the helper calls of conversation t that returned have
\* created on its Thread: none while create_thread_and_run has not returned,
\* one from then on, two once the follow-up submit_message has returned.
RunsBefore(t) ==
    IF thread[t] = NoThread THEN 0 ELSE IF FollowUpReturned(t) THEN 2 ELSE 1

\* The text the submit_message call conversation t is in, or failed in, sends.
Submitted(t) == IF thread[t] = NoThread THEN user_input(t) ELSE thank_you

\* Conversation t has had no request of kind op answered since its helper
\* call in progress (or failed) began: calls[t] is the log of that call.
NotSent(t, op) == \A i \in 1..Len(calls[t]) : calls[t][i].op # op

\* C21: a failed step leaves no later step executed.  (a) When the message
\* append of submit_message fails, no Run is created on that Thread and none
\* is returned: the Thread has the Runs it had before the call, the message
\* is not in it and the caller's Run variable is what it was.  (b) When the
\* Thread creation of create_thread_and_run fails, no Thread exists for the
\* call, no message is appended and no Run created.  (c) When createRun
\* fails, the user message appended just before is still the last message of
\* the Thread, and the Thread has no new Run.  After the failure nothing
\* further is sent to the service.
C21_FailedStepStops ==
    /\ [](\A t \in Tasks :
            /\ err[t] = "appendMessage" =>
                  /\ pc[t] = "raised"
                  /\ Len(runs[lthread[t]]) = RunsBefore(t)
                  /\ \A i \in 1..Len(msgs[lthread[t]]) :
                        msgs[lthread[t]][i].content # << Part(Submitted(t)) >>
                  /\ NotSent(t, "appendMessage") /\ NotSent(t, "createRun")
                  /\ run[t] = IF thread[t] = NoThread
                                 THEN NoRun
                                 ELSE [run[t] EXCEPT !.id = <<thread[t], 1>>]
            /\ err[t] = "createThread" =>
                  /\ pc[t] = "raised"
                  /\ lthread[t] = NoThread /\ thread[t] = NoThread /\ run[t] = NoRun
                  /\ threads = t - 1
                  /\ calls[t] = << >>
                  /\ \A th \in ThreadIds :
                        th > threads => msgs[th] = << >> /\ runs[th] = << >>
            /\ err[t] = "createRun" =>
                  /\ pc[t] = "raised"
                  /\ Len(msgs[lthread[t]]) > 0
                  /\ msgs[lthread[t]][Len(msgs[lthread[t]])].role = "user"
                  /\ msgs[lthread[t]][Len(msgs[lthread[t]])].content =
                        << Part(Submitted(t)) >>
                  /\ Len(runs[lthread[t]]) = RunsBefore(t)
                  /\ NotSent(t, "createRun")
                  /\ run[t] = IF thread[t] = NoThread
                                 THEN NoRun
                                 ELSE [run[t] EXCEPT !.id = <<thread[t], 1>>])
    /\ [][(\E t \in Tasks : pc[t] = "raised") =>
            /\ threads' = threads /\ msgs' = msgs /\ runs' = runs
            /\ run' = run /\ thread' = thread /\ calls' = calls /\ pc' = pc]_vars

\* The second create_thread_and_run call got its Thread and appended its
\* message, and createRun failed: the message is in the Thread, no Run is.
C21_Witness ==
    /\ err[2] = "createRun"
    /\ pc[2] = "raised"
    /\ lthread[2] = 2
    /\ Len(msgs[2]) = 1
    /\ msgs[2][1].content = << Part(user_input(2)) >>
    /\ runs[2] = << >>
    /\ Len(runs[1]) = 1

\* The message append of the second call failed: its Thread is empty.
C21_WitnessAppend ==
    /\ err[2] = "appendMessage" /\ lthread[2] = 2
    /\ msgs[2] = << >> /\ runs[2] = << >> /\ Len(msgs[1]) = 1

\* The Thread creation of the second call failed: one Thread exists.
C21_WitnessThread ==
    /\ err[2] = "createThread" /\ threads = 1 /\ Len(runs[1]) = 1

\* The follow-up's createRun failed: "Thank you!" stays in thread3.
C21_WitnessFollowUp ==
    /\ err[NumUsers] = "createRun" /\ thread[NumUsers] # NoThread
    /\ Len(runs[thread[NumUsers]]) = 1

\* The follow-up's message append failed: thread3 is as it was listed.
C21_WitnessFollowUpAppend ==
    /\ err[NumUsers] = "appendMessage" /\ thread[NumUsers] # NoThread
    /\ msgs[thread[NumUsers]] = listed[NumUsers]

=============================================================================
